---- MODULE Spec2Model ----
(***************************************************************************)
(* A model of triangle_rasterizer.cpp: the pixel buffer and setPixel, the  *)
(* colour interpolator, the Bresenham line rasterizer, the scanline        *)
(* triangle fill, the collinearity check and the part of main that reads   *)
(* triangles and draws them.                                               *)
(*                                                                         *)
(* Numbers.  A C++ float is modelled exactly, as the dyadic rational       *)
(* n / 2^k written <<n, k>> in lowest terms (k = 0 or n odd), and every    *)
(* float operation of the source rounds its exact result to 24            *)
(* significant bits, to nearest, ties to even, as IEEE-754 binary32 does.  *)
(* A packed 32-bit colour 0xRRGGBBAA is the pair <<0xRRGG, 0xBBAA>> of its  *)
(* two 16-bit halves.                                                      *)
(***************************************************************************)
EXTENDS Integers, Sequences

(***************************************************************************)
(* Bounds of the model.                                                    *)
(***************************************************************************)
\* the buffer is ScreenSize x ScreenSize (the program's is 500 x 500)
ScreenSize == 3
\* the largest number of triangles main is asked to render
MaxTriangles == 2

(***************************************************************************)
(* binary32 arithmetic                                                     *)
(***************************************************************************)
Abs(a) == IF a < 0 THEN -a ELSE a

RECURSIVE BitLen(_)
\* the number of binary digits of n >= 0
BitLen(n) == IF n = 0 THEN 0 ELSE 1 + BitLen(n \div 2)

RECURSIVE Canon(_, _)
\* n / 2^k in lowest terms
Canon(n, k) == IF k > 0 /\ n % 2 = 0 THEN Canon(n \div 2, k - 1) ELSE <<n, k>>

\* M, the kept digits, one more when the dropped digits R (of 2^s) are above
\* one half, or are one half and M is odd
RoundEven(M, R, s) ==
    IF s = 0 THEN M
    ELSE LET half == 2^(s - 1)
         IN  IF R > half \/ (R = half /\ M % 2 = 1) THEN M + 1 ELSE M

\* the magnitude J + G / 2^k (0 <= G < 2^k) rounded to 24 significant bits
RoundMag(J, G, k) ==
    IF J = 0
    THEN LET b == BitLen(G)
         IN  IF b <= 24 THEN Canon(G, k)
             ELSE LET s == b - 24
                  IN  Canon(RoundEven(G \div 2^s, G % 2^s, s), k - s)
    ELSE LET keep == 24 - BitLen(J)
         IN  IF k <= keep THEN Canon(J * 2^k + G, k)
             ELSE LET s == k - keep
                  IN  Canon(RoundEven(J * 2^keep + G \div 2^s, G % 2^s, s), keep)

Neg(f) == <<-f[1], f[2]>>

\* (float)a for an int a of fewer than 24 bits: exact
ToFloat(a) == <<a, 0>>

RECURSIVE QuotientShift(_, _, _)
\* the least k >= from with floor(a * 2^k / b) >= 2^24, for a, b > 0
QuotientShift(a, b, from) ==
    IF (a * 2^from) \div b >= 2^24 THEN from ELSE QuotientShift(a, b, from + 1)

\* no smaller k can do: a < 2^BitLen(a) and b >= 2^(BitLen(b) - 1)
ShiftFrom(a, b) ==
    LET k == 24 + BitLen(b) - BitLen(a) - 1 IN IF k < 0 THEN 0 ELSE k

\* (float)a / (float)b for ints a and b # 0: the quotient to 25 bits, its last
\* bit the rounding bit and the remainder the sticky bit
FDiv(a, b) ==
    IF a = 0 THEN <<0, 0>>
    ELSE LET k == QuotientShift(Abs(a), Abs(b), ShiftFrom(Abs(a), Abs(b)))
             Q == (Abs(a) * 2^k) \div Abs(b)
             rem == (Abs(a) * 2^k) % Abs(b)
             M == Q \div 2
             up == Q % 2 = 1 /\ (rem # 0 \/ M % 2 = 1)
             mag == Canon(IF up THEN M + 1 ELSE M, k - 1)
         IN  IF (a < 0) = (b < 0) THEN mag ELSE Neg(mag)

\* d * f for an int d (converted exactly) and a float f: the exact product in
\* two limbs H * 4096 + L, rounded to 24 bits
FMulInt(d, f) ==
    IF d = 0 \/ f[1] = 0 THEN <<0, 0>>
    ELSE LET n == Abs(f[1])
             pl == Abs(d) * (n % 4096)
             L == pl % 4096
             H == Abs(d) * (n \div 4096) + pl \div 4096
             b == IF H > 0 THEN BitLen(H) + 12 ELSE BitLen(L)
             s == b - 24
             mag == IF s <= 0 THEN Canon(H * 4096 + L, f[2])
                    ELSE LET M == RoundEven(H * 2^(12 - s) + L \div 2^s, L % 2^s, s)
                         IN  IF f[2] >= s THEN Canon(M, f[2] - s)
                             ELSE <<M * 2^(s - f[2]), 0>>
         IN  IF (d < 0) = (f[1] < 0) THEN mag ELSE Neg(mag)

\* a + f for an int a (converted exactly) and a float f
FAddInt(a, f) ==
    LET p == 2^f[2]
        I == a + f[1] \div p
        F == f[1] % p
    IN  IF I >= 0 THEN RoundMag(I, F, f[2])
        ELSE IF F = 0 THEN Neg(RoundMag(-I, 0, f[2]))
        ELSE Neg(RoundMag(-I - 1, p - F, f[2]))

\* f < g
FLess(f, g) ==
    LET If == f[1] \div 2^f[2]
        Ig == g[1] \div 2^g[2]
        K == IF f[2] > g[2] THEN f[2] ELSE g[2]
    IN  IF If # Ig THEN If < Ig
        ELSE (f[1] % 2^f[2]) * 2^(K - f[2]) < (g[1] % 2^g[2]) * 2^(K - g[2])

\* std::min(a, b) and std::max(a, b)
FMin(a, b) == IF FLess(b, a) THEN b ELSE a
FMax(a, b) == IF FLess(a, b) THEN b ELSE a

\* (int)f: towards zero
FTrunc(f) == IF f[1] >= 0 THEN f[1] \div 2^f[2] ELSE -((-f[1]) \div 2^f[2])

\* (uint8_t)f. For f outside (-1, 256) the conversion is undefined in C++; no
\* caller of the program reaches that (every fraction is within [0, 1]), and
\* the value given here is the one of a conversion through int.
ToUint8(f) == FTrunc(f) % 256

(***************************************************************************)
(* Colours, vertices and the screen                                        *)
(***************************************************************************)
\* the 32-bit word with the bytes r, g, b, a, most significant first
Word(r, g, b, a) == <<r * 256 + g, b * 256 + a>>

RED == Word(255, 0, 0, 255)
GREEN == Word(0, 255, 0, 255)
BLUE == Word(0, 0, 255, 255)
ORANGE == Word(255, 165, 0, 255)
GOLD == Word(255, 215, 0, 255)
PINK == Word(255, 192, 203, 255)
WHITE == Word(255, 255, 255, 255)
BLACK == Word(0, 0, 0, 255)

\* struct Vertex
Vertex(x, y, color) == [x |-> x, y |-> y, color |-> color]

\* screen.width and screen.height: the model's screen is not square, so that
\* rows and columns cannot be confused
SCREEN_WIDTH == ScreenSize + 1
SCREEN_HEIGHT == ScreenSize

\* the pixel array of drawScreen: width * height entries, all opaque black
drawScreen == [i \in 0 .. SCREEN_WIDTH * SCREEN_HEIGHT - 1 |-> BLACK]

RECURSIVE BitOr(_, _)
\* a | b for a, b >= 0
BitOr(a, b) ==
    IF a = 0 THEN b ELSE IF b = 0 THEN a
    ELSE 2 * BitOr(a \div 2, b \div 2) + (IF a % 2 = 1 \/ b % 2 = 1 THEN 1 ELSE 0)

\* setPixel with the bounds test x > width, y > height
setPixelOffByOne(pixels, x, y, color) ==
    IF x < 0 \/ x > SCREEN_WIDTH \/ y < 0 \/ y > SCREEN_HEIGHT THEN pixels
    ELSE LET index == y * SCREEN_WIDTH + x
         IN  IF index \in DOMAIN pixels THEN [pixels EXCEPT ![index] = color] ELSE pixels

\* setPixel with pixels[index] |= color
setPixelBlend(pixels, x, y, color) ==
    IF x < 0 \/ x >= SCREEN_WIDTH \/ y < 0 \/ y >= SCREEN_HEIGHT THEN pixels
    ELSE LET index == y * SCREEN_WIDTH + x
         IN  [pixels EXCEPT ![index] = <<BitOr(@[1], color[1]), BitOr(@[2], color[2])>>]

\* setPixel that leaves a pixel already drawn (no longer black) as it is
setPixelKeepFirst(pixels, x, y, color) ==
    IF x < 0 \/ x >= SCREEN_WIDTH \/ y < 0 \/ y >= SCREEN_HEIGHT THEN pixels
    ELSE LET index == y * SCREEN_WIDTH + x
         IN  IF pixels[index] = BLACK THEN [pixels EXCEPT ![index] = color] ELSE pixels

\* setPixel(screen, x, y, color): the pixel array after the call
setPixel(pixels, x, y, color) ==
    IF x < 0 \/ x >= SCREEN_WIDTH \/ y < 0 \/ y >= SCREEN_HEIGHT THEN pixels
    ELSE LET index == y * SCREEN_WIDTH + x
         IN  [pixels EXCEPT ![index] = color]

\* the alpha channel read with the blue channel's shift: (color >> 8) & 0xFF
ChannelAShifted(color) == color[2] \div 256

\* (color >> 24) & 0xFF, (color >> 16) & 0xFF, (color >> 8) & 0xFF, color & 0xFF
ChannelR(color) == color[1] \div 256
ChannelG(color) == color[1] % 256
ChannelB(color) == color[2] \div 256
ChannelA(color) == color[2] % 256

\* (uint8_t)(c1 + (c2 + c1) * t)
interpolateChannelSum(c1, c2, t) == ToUint8(FAddInt(c1, FMulInt(c2 + c1, t)))

\* (uint8_t)(c1 + (c2 - c1) * t)
interpolateChannel(c1, c2, t) == ToUint8(FAddInt(c1, FMulInt(c2 - c1, t)))

\* (r << 24) | (g << 16) | (b << 8) | a
PackColor(r, g, b, a) == <<r * 256 + g, b * 256 + a>>

interpolateColor(color0, color1, t) ==
    PackColor(interpolateChannel(ChannelR(color0), ChannelR(color1), t),
              interpolateChannel(ChannelG(color0), ChannelG(color1), t),
              interpolateChannel(ChannelB(color0), ChannelB(color1), t),
              interpolateChannel(ChannelA(color0), ChannelA(color1), t))

(***************************************************************************)
(* fillTriangle                                                            *)
(***************************************************************************)
\* the sort without its third compare-and-swap
SortByYTwoSwaps(a, b, c) ==
    LET s1 == IF a.y > b.y THEN <<b, a, c>> ELSE <<a, b, c>>
    IN  IF s1[1].y > s1[3].y THEN <<s1[3], s1[2], s1[1]>> ELSE s1

\* the three compare-and-swap steps: <<v0, v1, v2>> with v0.y <= v1.y <= v2.y
SortByY(a, b, c) ==
    LET s1 == IF a.y > b.y THEN <<b, a, c>> ELSE <<a, b, c>>
        s2 == IF s1[1].y > s1[3].y THEN <<s1[3], s1[2], s1[1]>> ELSE s1
    IN  IF s2[2].y > s2[3].y THEN <<s2[1], s2[3], s2[2]>> ELSE s2

\* the top half taken to include the middle vertex's row: y <= v1.y
TopHalfInclusive(v1, y) == y <= v1.y

\* bool topHalf = y < v1.y
TopHalf(v1, y) == y < v1.y

\* which branch the scanline y of the sorted triangle takes
RowKind(v0, v1, v2, y) ==
    IF TopHalf(v1, y)
    THEN IF v1.y = v0.y THEN "skipTop" ELSE "top"
    ELSE IF v2.y = v1.y THEN "skipBottom" ELSE "bottom"

\* the scanline's two edge points, ordered: x_left, x_right, color_left,
\* color_right, with the fractions used
RowSpan(v0, v1, v2, y) ==
    LET topHalf == TopHalf(v1, y)
        y_start == IF topHalf THEN v0.y ELSE v1.y
        y_end == IF topHalf THEN v1.y ELSE v2.y
        v_start == IF topHalf THEN v0 ELSE v1
        v_end == IF topHalf THEN v1 ELSE v2
        t_long == FDiv(y - v0.y, v2.y - v0.y)
        x_long == FAddInt(v0.x, FMulInt(v2.x - v0.x, t_long))
        t_short == FDiv(y - y_start, y_end - y_start)
        x_short == FAddInt(v_start.x, FMulInt(v_end.x - v_start.x, t_short))
        color_long == interpolateColor(v0.color, v2.color, t_long)
        color_short == interpolateColor(v_start.color, v_end.color, t_short)
    IN  [x_left |-> FTrunc(FMin(x_long, x_short)),
         x_right |-> FTrunc(FMax(x_long, x_short)),
         color_left |-> IF FLess(x_long, x_short) THEN color_long ELSE color_short,
         color_right |-> IF FLess(x_long, x_short) THEN color_short ELSE color_long,
         t_long |-> t_long, t_short |-> t_short]

\* the colour of the pixel x of a span
SpanColor(x, x_left, x_right, color_left, color_right) ==
    IF x_right = x_left THEN color_left
    ELSE interpolateColor(color_left, color_right, FDiv(x - x_left, x_right - x_left))

\* the setPixel calls that fill the span s of the scanline y, left to right
SpanCalls(y, s) ==
    [i \in 1 .. s.x_right - s.x_left + 1 |->
        Vertex(s.x_left + i - 1, y,
               SpanColor(s.x_left + i - 1, s.x_left, s.x_right, s.color_left, s.color_right))]

\* the setPixel calls of one scanline, in order
RowCalls(v0, v1, v2, y) ==
    IF RowKind(v0, v1, v2, y) \in {"skipTop", "skipBottom"} THEN <<>>
    ELSE SpanCalls(y, RowSpan(v0, v1, v2, y))

RECURSIVE ScanCalls(_, _, _, _)
\* the setPixel calls of the scanlines y .. v2.y
ScanCalls(v0, v1, v2, y) ==
    IF y > v2.y THEN <<>>
    ELSE RowCalls(v0, v1, v2, y) \o ScanCalls(v0, v1, v2, y + 1)

\* the setPixel calls fillTriangle(screen, a, b, c) makes, in order
FillCalls(a, b, c) ==
    LET v == SortByY(a, b, c)
    IN  IF v[1].y = v[3].y THEN <<>>
        ELSE ScanCalls(v[1], v[2], v[3], v[1].y)

RECURSIVE ApplyCalls(_, _, _)
\* the pixel array after the calls calls[i], calls[i + 1], ... of setPixel
ApplyCalls(pixels, calls, i) ==
    IF i > Len(calls) THEN pixels
    ELSE ApplyCalls(setPixel(pixels, calls[i].x, calls[i].y, calls[i].color), calls, i + 1)

\* the pixel array after fillTriangle(screen, a, b, c)
fillTriangle(pixels, a, b, c) == ApplyCalls(pixels, FillCalls(a, b, c), 1)

\* isCollinear(v0, v1, v2)
isCollinear(v0, v1, v2) ==
    LET area == (v1.x - v0.x) * (v2.y - v0.y) - (v2.x - v0.x) * (v1.y - v0.y)
    IN  area = 0

(***************************************************************************)
(* The line rasterizer                                                     *)
(***************************************************************************)
\* t = (totalSteps > 0) ? (float)currentStep / (float)totalSteps : 0.0f
StepFraction(currentStep, totalSteps) ==
    IF totalSteps > 0 THEN FDiv(currentStep, totalSteps) ELSE ToFloat(0)

RECURSIVE LowLoop(_, _, _, _, _, _, _, _, _, _)
\* bresenhamLow's loop from x on: for (; x <= x1; x++)
LowLoop(x, x1, y, yi, D, dx, dy, currentStep, color0, color1) ==
    IF x > x1 THEN <<>>
    ELSE <<Vertex(x, y, interpolateColor(color0, color1, StepFraction(currentStep, dx)))>>
         \o LowLoop(x + 1, x1, IF D > 0 THEN y + yi ELSE y, yi,
                    IF D > 0 THEN D + 2 * (dy - dx) ELSE D + 2 * dy,
                    dx, dy, currentStep + 1, color0, color1)

bresenhamLow(x0, y0, color0, x1, y1, color1) ==
    LET dx == x1 - x0
        yi == IF y1 - y0 < 0 THEN -1 ELSE 1
        dy == IF y1 - y0 < 0 THEN -(y1 - y0) ELSE y1 - y0
    IN  LowLoop(x0, x1, y0, yi, 2 * dy - dx, dx, dy, 0, color0, color1)

RECURSIVE HighLoop(_, _, _, _, _, _, _, _, _, _)
\* bresenhamHigh's loop from y on: for (; y <= y1; y++)
HighLoop(y, y1, x, xi, D, dx, dy, currentStep, color0, color1) ==
    IF y > y1 THEN <<>>
    ELSE <<Vertex(x, y, interpolateColor(color0, color1, StepFraction(currentStep, dy)))>>
         \o HighLoop(y + 1, y1, IF D > 0 THEN x + xi ELSE x, xi,
                     IF D > 0 THEN D + 2 * (dx - dy) ELSE D + 2 * dx,
                     dx, dy, currentStep + 1, color0, color1)

bresenhamHigh(x0, y0, color0, x1, y1, color1) ==
    LET dy == y1 - y0
        xi == IF x1 - x0 < 0 THEN -1 ELSE 1
        dx == IF x1 - x0 < 0 THEN -(x1 - x0) ELSE x1 - x0
    IN  HighLoop(y0, y1, x0, xi, 2 * dx - dy, dx, dy, 0, color0, color1)

\* bresenham without the exchange of the end points
bresenhamNoSwap(x0, y0, color0, x1, y1, color1) ==
    IF Abs(y1 - y0) < Abs(x1 - x0)
    THEN bresenhamLow(x0, y0, color0, x1, y1, color1)
    ELSE bresenhamHigh(x0, y0, color0, x1, y1, color1)

bresenham(x0, y0, color0, x1, y1, color1) ==
    IF Abs(y1 - y0) < Abs(x1 - x0)
    THEN IF x0 > x1 THEN bresenhamLow(x1, y1, color1, x0, y0, color0)
         ELSE bresenhamLow(x0, y0, color0, x1, y1, color1)
    ELSE IF y0 > y1 THEN bresenhamHigh(x1, y1, color1, x0, y0, color0)
         ELSE bresenhamHigh(x0, y0, color0, x1, y1, color1)

(***************************************************************************)
(* State                                                                   *)
(***************************************************************************)
VARIABLES
    pc,             \* where the program is
    pixels,         \* screen.pixels
    customTriangles,\* main: the mode the user chose, 0 before the choice
    triangles,      \* main: the triangles accepted so far
    triangle,       \* main: the three vertices read last
    numTriangles,   \* main: how many triangles the user asked for
    i,              \* main: the input loop's counter
    drawn,          \* main: how many triangles have been filled
    args,           \* a call's arguments
    before,         \* the pixel array when the call began
    calls,          \* the setPixel calls the last fillTriangle made, in order
    ret             \* the value the last call returned

vars == <<pc, pixels, customTriangles, triangles, triangle, numTriangles, i, drawn, args, before, calls, ret>>

mainVars == <<customTriangles, triangles, triangle, numTriangles, i, drawn>>

NoMain ==
    /\ customTriangles = 0
    /\ triangles = <<>>
    /\ triangle = <<>>
    /\ numTriangles = 0
    /\ i = 0
    /\ drawn = 0

\* a buffer holding one colour everywhere
Uniform(color) == [p \in 0 .. SCREEN_WIDTH * SCREEN_HEIGHT - 1 |-> color]

(***************************************************************************)
(* fillTriangle, called on any three vertices on or near the screen        *)
(***************************************************************************)
\* vertex coordinates: on the screen, one column to its left or one row below it
XCoords == -1 .. SCREEN_WIDTH - 1
YCoords == 0 .. SCREEN_HEIGHT

\* the vertex colours and the colour the buffer holds before the call
FillCases == {<<RED, GREEN, BLUE, BLACK>>, <<ORANGE, GOLD, PINK, WHITE>>}

FillInit ==
    /\ pc = "fill"
    /\ \E x0 \in XCoords, x1 \in XCoords, x2 \in XCoords,
          y0 \in YCoords, y1 \in YCoords, y2 \in YCoords, c \in FillCases :
          /\ args = <<Vertex(x0, y0, c[1]), Vertex(x1, y1, c[2]), Vertex(x2, y2, c[3])>>
          /\ pixels = Uniform(c[4])
    /\ before = pixels
    /\ calls = <<>>
    /\ ret = <<>>
    /\ NoMain

\* fillTriangle(screen, v0, v1, v2)
CallFillTriangle ==
    /\ pc = "fill"
    /\ pixels' = fillTriangle(pixels, args[1], args[2], args[3])
    /\ calls' = FillCalls(args[1], args[2], args[3])
    /\ pc' = "filled"
    /\ UNCHANGED <<mainVars, args, before, ret>>

\* the same three positions, every vertex in the colour the buffer started with
Repaint(v) == Vertex(v.x, v.y, before[0])

\* fillTriangle(screen, v0, v1, v2) once more, in the background colour
CallFillBackground ==
    /\ pc = "filled"
    /\ pixels' = fillTriangle(pixels, Repaint(args[1]), Repaint(args[2]), Repaint(args[3]))
    /\ calls' = FillCalls(Repaint(args[1]), Repaint(args[2]), Repaint(args[3]))
    /\ pc' = "repainted"
    /\ UNCHANGED <<mainVars, args, before, ret>>

FillNext == CallFillTriangle \/ CallFillBackground

SpecFill == FillInit /\ [][FillNext]_vars

(***************************************************************************)
(* Claims about fillTriangle                                               *)
(***************************************************************************)
OnScreen(v) == v.x >= 0 /\ v.x < SCREEN_WIDTH /\ v.y >= 0 /\ v.y < SCREEN_HEIGHT

Index(v) == v.y * SCREEN_WIDTH + v.x

Min3(a, b, c) == IF a <= b /\ a <= c THEN a ELSE IF b <= c THEN b ELSE c
Max3(a, b, c) == IF a >= b /\ a >= c THEN a ELSE IF b >= c THEN b ELSE c

ArgsOnScreen == \A j \in 1 .. 3 : OnScreen(args[j])

ArgsCollinear == isCollinear(args[1], args[2], args[3])

\* the call's vertices as fillTriangle orders them
Sorted == SortByY(args[1], args[2], args[3])

\* C1: after fillTriangle on an all-black buffer that contains the three
\* vertices of a non-collinear triangle, the pixel at each vertex holds that
\* vertex's colour.
C1_VertexColours ==
    (pc = "filled" /\ before = Uniform(BLACK) /\ ArgsOnScreen /\ ~ArgsCollinear)
        => \A j \in 1 .. 3 : pixels[Index(args[j])] = args[j].color

Perms3 == {<<1, 2, 3>>, <<1, 3, 2>>, <<2, 1, 3>>, <<2, 3, 1>>, <<3, 1, 2>>, <<3, 2, 1>>}

SameInAnyOrder ==
    \A q \in Perms3 : fillTriangle(before, args[q[1]], args[q[2]], args[q[3]]) = pixels

DistinctPositions ==
    \A j \in 1 .. 3, k \in 1 .. 3 :
        j # k => (args[j].x # args[k].x \/ args[j].y # args[k].y)

\* C6 as stated: whatever the three vertices, each of the 6 orders in which
\* they can be passed gives the same final buffer.
C6_AnyOrder == pc = "filled" => SameInAnyOrder

\* C6 as amended: for three vertices at pairwise distinct positions, each of
\* the 6 orders in which they can be passed gives the same final buffer.
C6_AnyOrderDistinct == (pc = "filled" /\ DistinctPositions) => SameInAnyOrder

\* two vertices share a row, the orders differ and pixels were written
C6_Witness ==
    /\ pc = "filled"
    /\ DistinctPositions
    /\ args[1].y = args[2].y
    /\ args[1].x > args[2].x
    /\ pixels # before

Positions(cs) == [j \in 1 .. Len(cs) |-> <<cs[j].x, cs[j].y>>]

\* C7: filling a triangle and then the same three positions in the colour the
\* buffer started with gives the starting buffer back: both fills write the
\* same pixels, whatever the vertex colours.
C7_RepaintRestores ==
    pc = "repainted" =>
        /\ pixels = before
        /\ Positions(calls) = Positions(FillCalls(args[1], args[2], args[3]))

\* the repaint wrote on the screen, over colours that were not the background's
C7_Witness ==
    /\ pc = "repainted"
    /\ \E j \in 1 .. Len(calls) : OnScreen(calls[j])
    /\ fillTriangle(before, args[1], args[2], args[3]) # before

InUnit(t) == ~FLess(t, ToFloat(0)) /\ ~FLess(ToFloat(1), t)

Between(c, a, b, d) == Min3(a, b, d) <= c /\ c <= Max3(a, b, d)

\* the colour lies channel by channel within the three vertex colours
WithinVertexColors(color) ==
    /\ Between(ChannelR(color), ChannelR(args[1].color), ChannelR(args[2].color),
               ChannelR(args[3].color))
    /\ Between(ChannelG(color), ChannelG(args[1].color), ChannelG(args[2].color),
               ChannelG(args[3].color))
    /\ Between(ChannelB(color), ChannelB(args[1].color), ChannelB(args[2].color),
               ChannelB(args[3].color))
    /\ Between(ChannelA(color), ChannelA(args[1].color), ChannelA(args[2].color),
               ChannelA(args[3].color))

\* the rows of the call that draw a span
SpanRows ==
    IF Sorted[1].y = Sorted[3].y THEN {}
    ELSE {y \in Sorted[1].y .. Sorted[3].y :
            RowKind(Sorted[1], Sorted[2], Sorted[3], y) \in {"top", "bottom"}}

FractionsInUnit ==
    \A y \in SpanRows :
        LET s == RowSpan(Sorted[1], Sorted[2], Sorted[3], y)
        IN  /\ InUnit(s.t_long)
            /\ InUnit(s.t_short)
            /\ \A x \in s.x_left .. s.x_right :
                 s.x_right # s.x_left => InUnit(FDiv(x - s.x_left, s.x_right - s.x_left))

\* C8: every colour fillTriangle writes lies, in each of its four channels,
\* between the least and the greatest value of that channel over the three
\* vertices, and every fraction the fill uses lies in [0, 1].
C8_ColoursInRange ==
    pc = "filled" =>
        /\ \A j \in 1 .. Len(calls) : WithinVertexColors(calls[j].color)
        /\ FractionsInUnit

\* a written colour that is none of the three vertex colours
C8_Witness ==
    /\ pc = "filled"
    /\ \E j \in 1 .. Len(calls) :
         /\ OnScreen(calls[j])
         /\ \A k \in 1 .. 3 : calls[j].color # args[k].color

\* the rows on which a call was made
WrittenRows == {calls[j].y : j \in 1 .. Len(calls)}

\* C10: for a triangle of nonzero height on a buffer holding its bounding box,
\* the rows written are y0 .. y2, less the row y2 when y1 = y2; the top-half
\* skip is never taken; every written pixel lies between the least and the
\* greatest vertex x and is written once.
C10_RowsWritten ==
    (pc = "filled" /\ ArgsOnScreen /\ Sorted[1].y < Sorted[3].y) =>
        /\ WrittenRows = IF Sorted[2].y < Sorted[3].y
                         THEN Sorted[1].y .. Sorted[3].y
                         ELSE Sorted[1].y .. Sorted[3].y - 1
        /\ \A y \in Sorted[1].y .. Sorted[3].y :
             RowKind(Sorted[1], Sorted[2], Sorted[3], y) # "skipTop"
        /\ \A j \in 1 .. Len(calls) :
             /\ Min3(args[1].x, args[2].x, args[3].x) <= calls[j].x
             /\ calls[j].x <= Max3(args[1].x, args[2].x, args[3].x)
             /\ OnScreen(calls[j])
             /\ pixels[Index(calls[j])] = calls[j].color
        /\ \A j \in 1 .. Len(calls), k \in 1 .. Len(calls) :
             j # k => Positions(calls)[j] # Positions(calls)[k]

\* a flat-bottomed triangle and a flat-topped one have been filled
C10_Witness ==
    /\ pc = "filled"
    /\ ArgsOnScreen
    /\ Sorted[1].y + 1 < Sorted[2].y
    /\ Sorted[2].y = Sorted[3].y
    /\ Sorted[2].x # Sorted[3].x
    /\ Len(calls) > 2

(***************************************************************************)
(* setPixel, called on any position on or near the screen                  *)
(***************************************************************************)
\* a buffer whose pixels all differ
Gradient == [p \in 0 .. SCREEN_WIDTH * SCREEN_HEIGHT - 1 |-> Word(p, 2 * p, 0, 255)]

SetPixelInit ==
    /\ pc = "setPixel"
    /\ \E x \in -2 .. SCREEN_WIDTH + 1, y \in -2 .. SCREEN_HEIGHT + 1,
          color \in {RED, PINK, BLACK} :
          args = <<x, y, color>>
    /\ pixels \in {drawScreen, Gradient}
    /\ before = pixels
    /\ calls = <<>>
    /\ ret = <<>>
    /\ NoMain

\* setPixel(screen, x, y, color)
CallSetPixel ==
    /\ pc = "setPixel"
    /\ pixels' = setPixel(pixels, args[1], args[2], args[3])
    /\ pc' = "returned"
    /\ UNCHANGED <<mainVars, args, before, calls, ret>>

SpecSetPixel == SetPixelInit /\ [][CallSetPixel]_vars

\* C2: setPixel with x or y outside the screen leaves every entry of the
\* buffer as it was; inside, the entry at y * width + x, an index of the
\* buffer, becomes the colour and every other entry stays as it was.
C2_SetPixelFrame ==
    pc = "returned" =>
        LET x == args[1]
            y == args[2]
            inside == 0 <= x /\ x < SCREEN_WIDTH /\ 0 <= y /\ y < SCREEN_HEIGHT
        IN  /\ DOMAIN pixels = DOMAIN before
            /\ inside => y * SCREEN_WIDTH + x \in 0 .. SCREEN_WIDTH * SCREEN_HEIGHT - 1
            /\ \A p \in DOMAIN before :
                 pixels[p] = IF inside /\ p = y * SCREEN_WIDTH + x THEN args[3]
                             ELSE before[p]

\* a call one column right of the screen, on a row of the screen, has returned
C2_Witness ==
    /\ pc = "returned"
    /\ args[1] = SCREEN_WIDTH
    /\ args[2] = 0
    /\ before = Gradient
    /\ pixels = before

(***************************************************************************)
(* interpolateColor, called on a set of colours and fractions              *)
(***************************************************************************)
InterpColors ==
    {RED, GREEN, BLUE, ORANGE, GOLD, PINK, WHITE, BLACK,
     Word(0, 0, 0, 0), Word(1, 2, 3, 4), Word(128, 127, 254, 1), Word(255, 0, 128, 127)}

InterpFractions == {FDiv(0, 1), FDiv(1, 3), FDiv(1, 2), FDiv(2, 3), FDiv(1, 1)}

InterpInit ==
    /\ pc = "interpolateColor"
    /\ \E color0 \in InterpColors, color1 \in InterpColors, t \in InterpFractions :
          args = <<color0, color1, t>>
    /\ pixels = drawScreen
    /\ before = pixels
    /\ calls = <<>>
    /\ ret = <<>>
    /\ NoMain

\* interpolateColor(color0, color1, t)
CallInterpolateColor ==
    /\ pc = "interpolateColor"
    /\ ret' = interpolateColor(args[1], args[2], args[3])
    /\ pc' = "returned"
    /\ UNCHANGED <<mainVars, pixels, args, before, calls>>

SpecInterp == InterpInit /\ [][CallInterpolateColor]_vars

\* C5: interpolateColor(A, B, 0) is A and interpolateColor(A, B, 1) is B,
\* in all four channels.
C5_InterpolateEndpoints ==
    pc = "returned" =>
        /\ args[3] = ToFloat(0) => ret = args[1]
        /\ args[3] = ToFloat(1) => ret = args[2]

\* an interpolation at t = 1 between colours that differ in every channel
C5_Witness ==
    /\ pc = "returned"
    /\ args[3] = ToFloat(1)
    /\ args[1] = Word(1, 2, 3, 4)
    /\ args[2] = Word(128, 127, 254, 1)
    /\ ret = args[2]

(***************************************************************************)
(* bresenham, called on any two points on or near the screen               *)
(***************************************************************************)
LineInit ==
    /\ pc = "bresenham"
    /\ \E x0 \in XCoords, y0 \in YCoords, x1 \in XCoords, y1 \in YCoords,
          c \in {<<RED, GREEN>>, <<GOLD, PINK>>} :
          args = <<x0, y0, c[1], x1, y1, c[2]>>
    /\ pixels = drawScreen
    /\ before = pixels
    /\ calls = <<>>
    /\ ret = <<>>
    /\ NoMain

\* bresenham(x0, y0, color0, x1, y1, color1)
CallBresenham ==
    /\ pc = "bresenham"
    /\ ret' = bresenham(args[1], args[2], args[3], args[4], args[5], args[6])
    /\ pc' = "returned"
    /\ UNCHANGED <<mainVars, pixels, args, before, calls>>

SpecLine == LineInit /\ [][CallBresenham]_vars

\* C4: for two distinct points the line has max(|dx|, |dy|) + 1 elements, its
\* first and last elements are at the two points (in the given or in the
\* reversed order), and the dominant coordinate grows by 1 from each element
\* to the next.
C4_LineEndpoints ==
    (pc = "returned" /\ <<args[1], args[2]>> # <<args[4], args[5]>>) =>
        LET adx == Abs(args[4] - args[1])
            ady == Abs(args[5] - args[2])
            n == IF adx > ady THEN adx + 1 ELSE ady + 1
            ends == {<<ret[1].x, ret[1].y>>, <<ret[n].x, ret[n].y>>}
        IN  /\ Len(ret) = n
            /\ ends = {<<args[1], args[2]>>, <<args[4], args[5]>>}
            /\ \A j \in 1 .. n - 1 :
                 IF ady < adx THEN ret[j + 1].x = ret[j].x + 1
                 ELSE ret[j + 1].y = ret[j].y + 1

\* a shallow line given right to left, neither horizontal nor diagonal
C4_Witness ==
    /\ pc = "returned"
    /\ args[1] > args[4] + 2
    /\ args[2] = args[5] + 1
    /\ Len(ret) > 3

(***************************************************************************)
(* main                                                                    *)
(***************************************************************************)
\* the program's two default triangles. The source places them on its
\* 500 x 500 screen, at (250,100) (100,400) (400,400) and at (100,50) (50,200)
\* (200,150); here they lie at the same fractions of the model's screen.
DefaultTriangles ==
    << <<Vertex(SCREEN_WIDTH \div 2, SCREEN_HEIGHT \div 5, RED),
         Vertex(SCREEN_WIDTH \div 5, (4 * SCREEN_HEIGHT) \div 5, GREEN),
         Vertex((4 * SCREEN_WIDTH) \div 5, (4 * SCREEN_HEIGHT) \div 5, BLUE)>>,
       <<Vertex(SCREEN_WIDTH \div 5, SCREEN_HEIGHT \div 10, ORANGE),
         Vertex(SCREEN_WIDTH \div 10, (2 * SCREEN_HEIGHT) \div 5, GOLD),
         Vertex((2 * SCREEN_WIDTH) \div 5, (3 * SCREEN_HEIGHT) \div 10, PINK)>> >>

\* the vertices the user types: four positions, three of them on one slanted
\* line and the last below the screen, and two colours for the first position
\* (WHITE is what an unknown colour number gives)
InputVertices ==
    {Vertex(0, 0, RED), Vertex(0, 0, WHITE), Vertex(3, 0, GREEN), Vertex(1, 1, BLUE),
     Vertex(3, 3, ORANGE)}

MainInit ==
    /\ pc = "start"
    /\ pixels = drawScreen
    /\ customTriangles = 0
    /\ triangles = <<>>
    /\ triangle = <<>>
    /\ numTriangles = 0
    /\ i = 0
    /\ drawn = 0
    /\ args = <<>>
    /\ before = pixels
    /\ calls = <<>>
    /\ ret = <<>>

callVars == <<args, before, calls, ret>>

\* the user answers neither 1 nor 2: main returns
ChooseNeither ==
    /\ pc = "start"
    /\ pc' = "exit"
    /\ UNCHANGED <<pixels, mainVars, callVars>>

\* the user answers 1
ChooseDefault ==
    /\ pc = "start"
    /\ customTriangles' = 1
    /\ pc' = "default"
    /\ UNCHANGED <<pixels, triangles, triangle, numTriangles, i, drawn, callVars>>

\* the user answers 2 and says how many triangles
ChooseCustom ==
    /\ pc = "start"
    /\ customTriangles' = 2
    /\ \E n \in 0 .. MaxTriangles : numTriangles' = n
    /\ pc' = "input"
    /\ UNCHANGED <<pixels, triangles, triangle, i, drawn, callVars>>

\* the input loop without its collinearity test
ReadTriangleUnchecked ==
    /\ pc = "input"
    /\ i < numTriangles
    /\ \E v0 \in InputVertices, v1 \in InputVertices, v2 \in InputVertices :
          /\ triangle' = <<v0, v1, v2>>
          /\ triangles' = Append(triangles, <<v0, v1, v2>>)
          /\ i' = i + 1
    /\ UNCHANGED <<pc, pixels, customTriangles, numTriangles, drawn, callVars>>

\* one pass of the input loop: three vertices are read; a collinear triangle
\* is refused and asked for again (i-- before the loop's i++), any other is
\* added to triangles
ReadTriangle ==
    /\ pc = "input"
    /\ i < numTriangles
    /\ \E v0 \in InputVertices, v1 \in InputVertices, v2 \in InputVertices :
          /\ triangle' = <<v0, v1, v2>>
          /\ IF isCollinear(v0, v1, v2)
             THEN UNCHANGED <<triangles, i>>
             ELSE /\ triangles' = Append(triangles, <<v0, v1, v2>>)
                  /\ i' = i + 1
    /\ UNCHANGED <<pc, pixels, customTriangles, numTriangles, drawn, callVars>>

\* the input loop ends
EndInput ==
    /\ pc = "input"
    /\ i >= numTriangles
    /\ pc' = "draw"
    /\ UNCHANGED <<pixels, mainVars, callVars>>

\* one pass of the drawing loop: fillTriangle on the next triangle
DrawTriangle ==
    /\ pc = "draw"
    /\ drawn < Len(triangles)
    /\ LET t == triangles[drawn + 1]
       IN  /\ args' = t
           /\ before' = pixels
           /\ pixels' = fillTriangle(pixels, t[1], t[2], t[3])
           /\ calls' = FillCalls(t[1], t[2], t[3])
    /\ drawn' = drawn + 1
    /\ UNCHANGED <<pc, customTriangles, triangles, triangle, numTriangles, i, ret>>

\* fillTriangle on the next default triangle
DrawDefault ==
    /\ pc = "default"
    /\ drawn < Len(DefaultTriangles)
    /\ LET t == DefaultTriangles[drawn + 1]
       IN  /\ args' = t
           /\ before' = pixels
           /\ pixels' = fillTriangle(pixels, t[1], t[2], t[3])
           /\ calls' = FillCalls(t[1], t[2], t[3])
    /\ drawn' = drawn + 1
    /\ UNCHANGED <<pc, customTriangles, triangles, triangle, numTriangles, i, ret>>

\* all triangles are drawn: the event loop begins, which only shows the buffer
EnterEventLoop ==
    /\ \/ pc = "draw" /\ drawn = Len(triangles)
       \/ pc = "default" /\ drawn = Len(DefaultTriangles)
    /\ pc' = "loop"
    /\ UNCHANGED <<pixels, mainVars, callVars>>

Next ==
    \/ ChooseNeither
    \/ ChooseDefault
    \/ ChooseCustom
    \/ ReadTriangle
    \/ EndInput
    \/ DrawTriangle
    \/ DrawDefault
    \/ EnterEventLoop

Spec == MainInit /\ [][Next]_vars

\* the triangles main has filled so far, in order
Filled ==
    IF customTriangles = 1 THEN SubSeq(DefaultTriangles, 1, drawn)
    ELSE SubSeq(triangles, 1, drawn)

\* the pixels of the screen that fillTriangle on t writes
WrittenPixels(t) ==
    LET cs == FillCalls(t[1], t[2], t[3])
    IN  {Index(cs[j]) : j \in {k \in 1 .. Len(cs) : OnScreen(cs[k])}}

RECURSIVE Masks(_)
\* WrittenPixels of each triangle of ts
Masks(ts) == IF ts = <<>> THEN <<>> ELSE <<WrittenPixels(Head(ts))>> \o Masks(Tail(ts))

RECURSIVE Alones(_)
\* what fillTriangle leaves on the initialised buffer, for each triangle of ts
Alones(ts) ==
    IF ts = <<>> THEN <<>>
    ELSE <<fillTriangle(drawScreen, Head(ts)[1], Head(ts)[2], Head(ts)[3])>> \o Alones(Tail(ts))

RECURSIVE LastCovering(_, _, _)
\* the last of the first j triangles whose mask holds p, 0 if there is none
LastCovering(masks, p, j) ==
    IF j = 0 THEN 0 ELSE IF p \in masks[j] THEN j ELSE LastCovering(masks, p, j - 1)

\* C9: after any sequence of fillTriangle calls on the initialised buffer,
\* every pixel holds what the last triangle covering it writes there on its
\* own, and opaque black if no triangle covers it.
C9_LastWriteWins ==
    LET masks == Masks(Filled)
        alone == Alones(Filled)
    IN  \A p \in DOMAIN pixels :
            LET j == LastCovering(masks, p, Len(Filled))
            IN  pixels[p] = IF j = 0 THEN BLACK ELSE alone[j][p]

\* two triangles are drawn and some pixel the first coloured otherwise holds
\* the second's colour
C9_Witness ==
    /\ pc = "loop"
    /\ customTriangles = 2
    /\ drawn = 2
    /\ LET masks == Masks(Filled)
           alone == Alones(Filled)
       IN  \E p \in DOMAIN pixels :
               /\ p \in masks[1] \cap masks[2]
               /\ alone[1][p] # alone[2][p]
               /\ pixels[p] = alone[2][p]

(***************************************************************************)
(* main, or fillTriangle called directly                                   *)
(***************************************************************************)
SpecMainOrFill == (MainInit \/ FillInit) /\ [][Next \/ FillNext]_vars

ArgsOnOneRow == args[1].y = args[2].y /\ args[2].y = args[3].y

\* no pass of the input loop lets a collinear triangle through
RejectsCollinear ==
    (pc = "input" /\ pc' = "input") =>
        IF isCollinear(triangle'[1], triangle'[2], triangle'[3])
        THEN triangles' = triangles /\ i' = i
        ELSE triangles' = Append(triangles, triangle') /\ i' = i + 1

\* the drawing loop passes the accepted triangles to fillTriangle, in order
DrawsInOrder ==
    (pc = "draw" /\ drawn' # drawn) =>
        /\ drawn' = drawn + 1
        /\ args' = triangles[drawn']
        /\ triangles' = triangles

\* C3: fillTriangle on three vertices of one row writes nothing; main refuses
\* every triangle isCollinear holds of, so that what it passes to
\* fillTriangle are the triangles isCollinear does not hold of, in the order
\* they were typed.
C3_DegenerateNeverDrawn ==
    /\ []((pc = "filled" /\ ArgsOnOneRow) => (calls = <<>> /\ pixels = before))
    /\ []((customTriangles = 2 /\ args # <<>>) => ~ArgsCollinear)
    /\ []((customTriangles = 2 /\ pc # "input") => Len(triangles) = numTriangles)
    /\ [][RejectsCollinear]_vars
    /\ [][DrawsInOrder]_vars

\* a triangle on a slanted line was just refused, after another had been
\* accepted
C3_Witness ==
    /\ pc = "input"
    /\ Len(triangles) = 1
    /\ i = 1
    /\ triangle # triangles[1]
    /\ isCollinear(triangle[1], triangle[2], triangle[3])
    /\ triangle[1].y < triangle[2].y
    /\ triangle[2].y < triangle[3].y

====
